---- MODULE Spec2Model ----
(***************************************************************************)
(* Model of the notes application of src/notes_frontend/src/App.js: the    *)
(* App component's state (notes, search, selectedNoteId, isCreatingNew),   *)
(* the NoteEditor's staged title/content, the localStorage slot "notes",   *)
(* and one action per event handler.  Each action is the whole handler     *)
(* followed by the re-render it causes (editor mount/unmount by key) and   *)
(* the persistence effect.                                                 *)
(*                                                                         *)
(* Strings are sequences of one-character strings.  A note is a function   *)
(* from field names to strings; a note that was never edited has no        *)
(* "updated" field in its domain.                                          *)
(***************************************************************************)
EXTENDS Integers, Sequences, FiniteSets, TLC

VARIABLES
    status,          \* "running", or "crashed" when the first render threw
    saved,           \* what localStorage.getItem("notes") returned at startup
    storage,         \* the localStorage slot "notes"
    notes,           \* App state: the note collection
    search,          \* App state: the search query
    selectedNoteId,  \* App state: selected note id, or Null
    isCreatingNew,   \* App state: editor open for a new note
    title,           \* NoteEditor state: staged title
    content,         \* NoteEditor state: staged content
    now,             \* the clock read by Date.now() and new Date()
    last             \* the kind of the event handled last (history, read by no action)

vars == <<status, saved, storage, notes, search, selectedNoteId, isCreatingNew,
          title, content, now, last>>

----------------------------------------------------------------------------
(* Bounds *)

MaxLen == 1

MaxNotes == 2

MaxClock == 2

MaxQuery == 2

MaxFilterNotes == 2

(* Program constants *)

TitleMaxLength == 80

ContentMaxLength == 5000

IdSuffixLength == 8

----------------------------------------------------------------------------
(* Strings *)

Chars == {" ", "a"}

FilterChars == {" ", "a", "A"}

Whitespace == {" "}

RECURSIVE StringsOver(_, _)
StringsOver(alphabet, n) ==
    IF n = 0 THEN {<<>>}
    ELSE LET shorter == StringsOver(alphabet, n - 1)
         IN  shorter \cup {Append(s, c) : s \in shorter, c \in alphabet}

\* What the user can type into the title and content inputs.
Strings == StringsOver(Chars, MaxLen)

\* What the user types into the search box: nothing, or a query.
SearchStrings == {<<>>, <<"a", "a">>}

\* What the user can type into the search box in the filter specification.
QueryStrings == StringsOver(FilterChars, MaxQuery)

\* String.prototype.trim: drop leading and trailing whitespace.
RECURSIVE TrimStart(_)
TrimStart(s) ==
    IF s # <<>> /\ Head(s) \in Whitespace THEN TrimStart(Tail(s)) ELSE s

RECURSIVE TrimEnd(_)
TrimEnd(s) ==
    IF s # <<>> /\ s[Len(s)] \in Whitespace
    THEN TrimEnd(SubSeq(s, 1, Len(s) - 1))
    ELSE s

Trim(s) == TrimEnd(TrimStart(s))

\* String.prototype.toLowerCase on the model's alphabet.
LowerChar(c) == CASE c = "A" -> "a" [] c = "B" -> "b" [] OTHER -> c

ToLowerCase(s) == [i \in 1..Len(s) |-> LowerChar(s[i])]

\* String.prototype.includes: scan the start positions from left to right.
RECURSIVE IncludesFrom(_, _, _)
IncludesFrom(hay, needle, i) ==
    IF i + Len(needle) - 1 > Len(hay) THEN FALSE
    ELSE IF SubSeq(hay, i, i + Len(needle) - 1) = needle THEN TRUE
    ELSE IncludesFrom(hay, needle, i + 1)

Includes(hay, needle) == IncludesFrom(hay, needle, 1)

\* Number.prototype.toString (base 10).
DigitChar(d) == <<"0", "1", "2", "3", "4", "5", "6", "7", "8", "9">>[d + 1]

RECURSIVE Digits(_)
Digits(n) ==
    IF n < 10 THEN <<DigitChar(n)>>
    ELSE Append(Digits(n \div 10), DigitChar(n % 10))

\* Date.prototype.toISOString of the clock value t.
ToISOString(t) == Append(Digits(t), "Z")

----------------------------------------------------------------------------
(* Ids *)

\* Math.random().toString(36).substr(2, 8): at most 8 characters, possibly
\* none (Math.random() = 0 prints as "0"); the model draws from two of them.
RandomSuffixes == {s \in {<<>>, <<"k">>} : Len(s) <= IdSuffixLength}

\* generateId: Date.now().toString() + the random suffix.
generateId(t, r) == Digits(t) \o r

Null == <<"null">>

----------------------------------------------------------------------------
(* Notes *)

\* Property order of a note object: { id, ...edited, created } and then
\* { ...n, ...edited, updated }.
FieldOrder == <<"id", "title", "content", "created", "updated">>

\* What NoteEditor.handleSave passes to onSave.
Edited(t, c) == [title |-> Trim(t), content |-> Trim(c)]

\* IsBlank with the trim forgotten.
IsBlank_NoTrim(t, c) == t = <<>> /\ c = <<>>

\* NoteEditor.handleSave's test for a blank note.
IsBlank(t, c) == Trim(t) = <<>> /\ Trim(c) = <<>>

\* { id: newId, ...edited, created: new Date().toISOString() }
NewNote(id, edited, t) ==
    [id |-> id, title |-> edited.title, content |-> edited.content,
     created |-> ToISOString(t)]

\* { ...n, ...edited, updated: new Date().toISOString() }
UpdatedNote(n, edited, t) ==
    [f \in DOMAIN n \cup {"updated"} |->
        CASE f = "title"   -> edited.title
          [] f = "content" -> edited.content
          [] f = "updated" -> ToISOString(t)
          [] OTHER         -> n[f]]

\* [newNote, ...notes]
CreateNotes(ns, id, edited, t) == <<NewNote(id, edited, t)>> \o ns

\* notes.map(n => n.id === selectedNoteId ? {...} : n)
UpdateNotes(ns, sel, edited, t) ==
    [i \in 1..Len(ns) |->
        IF ns[i].id = sel THEN UpdatedNote(ns[i], edited, t) ELSE ns[i]]

\* notes.filter(n => n.id !== noteId)
DeleteNotes(ns, noteId) == SelectSeq(ns, LAMBDA n : n.id # noteId)

\* Matches with the query compared as typed.
Matches_CaseSensitive(n, q) ==
    Includes(ToLowerCase(n.title \o <<" ">> \o n.content), q)

\* The predicate of filteredNotes.
Matches(n, q) ==
    Includes(ToLowerCase(n.title \o <<" ">> \o n.content), ToLowerCase(q))

\* notes.filter(...): walk the collection, keep the matching notes.
RECURSIVE FilterNotes(_, _)
FilterNotes(ns, q) ==
    IF ns = <<>> THEN <<>>
    ELSE IF Matches(Head(ns), q)
         THEN <<Head(ns)>> \o FilterNotes(Tail(ns), q)
         ELSE FilterNotes(Tail(ns), q)

\* notes.find(note => note.id === selectedNoteId): index of the first
\* match, 0 when there is none (undefined).
RECURSIVE FindIndexFrom(_, _, _)
FindIndexFrom(ns, id, i) ==
    IF i > Len(ns) THEN 0
    ELSE IF ns[i].id = id THEN i
    ELSE FindIndexFrom(ns, id, i + 1)

FindIndex(ns, id) == FindIndexFrom(ns, id, 1)

----------------------------------------------------------------------------
(* Persistence: JSON text as a sequence of tokens <<kind, payload>> *)

LBRACK == <<"[", <<>>>>

RBRACK == <<"]", <<>>>>

LBRACE == <<"{", <<>>>>

RBRACE == <<"}", <<>>>>

COMMA == <<",", <<>>>>

KeyTok(k) == <<"key", <<k>>>>

StrTok(s) == <<"str", s>>

RECURSIVE StringifyMembers(_, _, _)
StringifyMembers(n, keys, first) ==
    IF keys = <<>> THEN <<>>
    ELSE (IF first THEN <<>> ELSE <<COMMA>>)
         \o <<KeyTok(Head(keys)), StrTok(n[Head(keys)])>>
         \o StringifyMembers(n, Tail(keys), FALSE)

\* StringifyNote writing a fixed list of four fields.
StringifyNote_FixedFields(n) ==
    <<LBRACE>>
    \o StringifyMembers(n, SubSeq(FieldOrder, 1, 4), TRUE)
    \o <<RBRACE>>

\* JSON.stringify of one note: its own properties, in property order.
StringifyNote(n) ==
    <<LBRACE>>
    \o StringifyMembers(n, SelectSeq(FieldOrder, LAMBDA k : k \in DOMAIN n), TRUE)
    \o <<RBRACE>>

RECURSIVE StringifyElems(_, _)
StringifyElems(ns, first) ==
    IF ns = <<>> THEN <<>>
    ELSE (IF first THEN <<>> ELSE <<COMMA>>)
         \o StringifyNote(Head(ns))
         \o StringifyElems(Tail(ns), FALSE)

\* JSON.stringify(notes)
Stringify(ns) == <<LBRACK>> \o StringifyElems(ns, TRUE) \o <<RBRACK>>

ParseFail == [ok |-> FALSE, val |-> <<>>, rest |-> <<>>]

EmptyObject == [f \in {} |-> <<>>]

\* Members of an object after "{" or ",": key, string, then "," or "}".
RECURSIVE ParseMembers(_, _)
ParseMembers(toks, obj) ==
    IF Len(toks) < 3 \/ toks[1][1] # "key" \/ toks[2][1] # "str" THEN ParseFail
    ELSE LET k    == toks[1][2][1]
             obj2 == [f \in DOMAIN obj \cup {k} |->
                         IF f = k THEN toks[2][2] ELSE obj[f]]
         IN  IF toks[3] = RBRACE
             THEN [ok |-> TRUE, val |-> obj2, rest |-> SubSeq(toks, 4, Len(toks))]
             ELSE IF toks[3] = COMMA
             THEN ParseMembers(SubSeq(toks, 4, Len(toks)), obj2)
             ELSE ParseFail

ParseObject(toks) ==
    IF Len(toks) < 2 \/ toks[1] # LBRACE THEN ParseFail
    ELSE IF toks[2] = RBRACE
    THEN [ok |-> TRUE, val |-> EmptyObject, rest |-> SubSeq(toks, 3, Len(toks))]
    ELSE ParseMembers(Tail(toks), EmptyObject)

\* Elements of an array after "[" or ",": object, then "," or "]".
RECURSIVE ParseElems(_, _)
ParseElems(toks, acc) ==
    LET o == ParseObject(toks)
    IN  IF ~o.ok \/ o.rest = <<>> THEN ParseFail
        ELSE IF Head(o.rest) = RBRACK
        THEN [ok |-> TRUE, val |-> Append(acc, o.val), rest |-> Tail(o.rest)]
        ELSE IF Head(o.rest) = COMMA
        THEN ParseElems(Tail(o.rest), Append(acc, o.val))
        ELSE ParseFail

ParseArray(toks) ==
    IF Len(toks) < 2 \/ toks[1] # LBRACK THEN ParseFail
    ELSE IF toks[2] = RBRACK
    THEN [ok |-> TRUE, val |-> <<>>, rest |-> SubSeq(toks, 3, Len(toks))]
    ELSE ParseElems(Tail(toks), <<>>)

\* JSON.parse on an array of flat objects; ok = FALSE is a SyntaxError.
JSONParse(toks) ==
    LET r == ParseArray(toks)
    IN  IF r.ok /\ r.rest = <<>> THEN [ok |-> TRUE, val |-> r.val]
        ELSE [ok |-> FALSE, val |-> <<>>]

\* A localStorage slot: absent (getItem returns null) or a text.
Absent == [present |-> FALSE, text |-> <<>>]

Item(text) == [present |-> TRUE, text |-> text]

\* JavaScript truthiness of getItem's result: null and "" are falsy.
Truthy(item) == item.present /\ item.text # <<>>

\* The useState initializer: saved ? JSON.parse(saved) : []
LoadNotes(item) ==
    IF Truthy(item) THEN JSONParse(item.text) ELSE [ok |-> TRUE, val |-> <<>>]

----------------------------------------------------------------------------
(* Startup *)

\* Texts JSON.parse rejects: a truncated write and a stray brace.
UnparseableTexts == {<<LBRACK, LBRACE>>, <<RBRACE>>}

\* Collections an earlier session (clock 0) can have left in the slot.
StoredNotes ==
    LET fresh == NewNote(generateId(0, <<"k">>), Edited(<<"a">>, <<>>), 0)
    IN  {fresh, UpdatedNote(fresh, Edited(<<>>, <<"a">>), 0)}

StoredCollections == {<<>>} \cup {<<n>> : n \in StoredNotes}

\* What localStorage.getItem("notes") can return when the App is constructed.
StartupItems ==
    {Absent, Item(<<>>)}
    \cup {Item(t) : t \in UnparseableTexts}
    \cup {Item(Stringify(c)) : c \in StoredCollections}

\* State after construction: the useState initializers, and, when the first
\* render did not throw, the persistence effect of the mount.
Init ==
    /\ saved \in StartupItems
    /\ LET r == LoadNotes(saved)
       IN  /\ status = IF r.ok THEN "running" ELSE "crashed"
           /\ notes = r.val
           /\ storage = IF r.ok THEN Item(Stringify(r.val)) ELSE saved
    /\ search = <<>>
    /\ selectedNoteId = Null
    /\ isCreatingNew = FALSE
    /\ title = <<>>
    /\ content = <<>>
    /\ now = 1
    /\ last = "start"

----------------------------------------------------------------------------
(* Rendering *)

filteredNotes == FilterNotes(notes, search)

ClosedKey == <<"closed">>

NewKey == <<"new">>

\* The editor pane: closed, or a NoteEditor keyed by the selected note's id
\* or by "new".
EditorKey(ns, sel, creating) ==
    LET i == FindIndex(ns, sel)
    IN  IF i = 0 /\ ~creating THEN ClosedKey
        ELSE IF i # 0 /\ ~creating THEN ns[i].id
        ELSE NewKey

EditorOpen == EditorKey(notes, selectedNoteId, isCreatingNew) # ClosedKey

\* The note prop a NoteEditor is mounted with.
EditorSeed(ns, sel, creating) ==
    IF creating THEN [title |-> <<>>, content |-> <<>>]
    ELSE LET n == ns[FindIndex(ns, sel)]
         IN  [title |-> n.title, content |-> n.content]

\* The state a handler leaves after the re-render: the App state it set, the
\* NoteEditor kept when its key is unchanged and mounted afresh otherwise,
\* and the persistence effect when setNotes was called.
Commit(ns, wrote, sel, creating, ev) ==
    LET k1 == EditorKey(notes, selectedNoteId, isCreatingNew)
        k2 == EditorKey(ns, sel, creating)
    IN  /\ notes' = ns
        /\ selectedNoteId' = sel
        /\ isCreatingNew' = creating
        /\ title' = IF k2 = ClosedKey THEN <<>>
                    ELSE IF k2 = k1 THEN title
                    ELSE EditorSeed(ns, sel, creating).title
        /\ content' = IF k2 = ClosedKey THEN <<>>
                      ELSE IF k2 = k1 THEN content
                      ELSE EditorSeed(ns, sel, creating).content
        /\ storage' = IF wrote THEN Item(Stringify(ns)) ELSE storage
        /\ last' = ev
        /\ UNCHANGED <<status, saved, search, now>>

----------------------------------------------------------------------------
(* Event handlers *)

handleSearchChange(queries) ==
    /\ status = "running"
    /\ \E q \in queries :
        /\ search' = q
        /\ last' = "other"
        /\ UNCHANGED <<status, saved, storage, notes, selectedNoteId,
                       isCreatingNew, title, content, now>>

\* handleCreateNoteClick without setSelectedNoteId(null).
handleCreateNoteClick_KeepsSelection ==
    /\ status = "running"
    /\ Commit(notes, FALSE, selectedNoteId, TRUE, "other")

handleCreateNoteClick ==
    /\ status = "running"
    /\ Commit(notes, FALSE, Null, TRUE, "other")

\* A click on the i-th item of the visible list.
handleSelectNote(i) ==
    /\ status = "running"
    /\ i \in 1..Len(filteredNotes)
    /\ Commit(notes, FALSE, filteredNotes[i].id, FALSE, "other")

\* handleDeleteNote clearing the selection whichever note is deleted.
handleDeleteNote_ClearsSelection(i, confirmed) ==
    /\ status = "running"
    /\ i \in 1..Len(filteredNotes)
    /\ LET noteId == filteredNotes[i].id
       IN  IF confirmed
           THEN Commit(DeleteNotes(notes, noteId), TRUE, Null, FALSE,
                       IF selectedNoteId = noteId THEN "deleteSelected"
                                                  ELSE "deleteOther")
           ELSE /\ last' = "deleteDeclined"
                /\ UNCHANGED <<status, saved, storage, notes, search,
                               selectedNoteId, isCreatingNew, title, content, now>>

\* A click on the delete button of the i-th item of the visible list;
\* confirmed is the answer of window.confirm.
handleDeleteNote(i, confirmed) ==
    /\ status = "running"
    /\ i \in 1..Len(filteredNotes)
    /\ LET noteId == filteredNotes[i].id
       IN  IF confirmed
           THEN Commit(DeleteNotes(notes, noteId), TRUE,
                       IF selectedNoteId = noteId THEN Null ELSE selectedNoteId,
                       FALSE,
                       IF selectedNoteId = noteId THEN "deleteSelected"
                                                  ELSE "deleteOther")
           ELSE /\ last' = "deleteDeclined"
                /\ UNCHANGED <<status, saved, storage, notes, search,
                               selectedNoteId, isCreatingNew, title, content, now>>

\* onChange of the title input.
setTitle(s) ==
    /\ status = "running"
    /\ EditorOpen
    /\ Len(s) <= TitleMaxLength
    /\ title' = s
    /\ last' = "other"
    /\ UNCHANGED <<status, saved, storage, notes, search, selectedNoteId,
                   isCreatingNew, content, now>>

\* onChange of the content textarea.
setContent(s) ==
    /\ status = "running"
    /\ EditorOpen
    /\ Len(s) <= ContentMaxLength
    /\ content' = s
    /\ last' = "other"
    /\ UNCHANGED <<status, saved, storage, notes, search, selectedNoteId,
                   isCreatingNew, title, now>>

\* App.handleSaveNote(edited); r is what Math.random() contributes to the id.
handleSaveNote(edited, r) ==
    IF isCreatingNew
    THEN LET newId == generateId(now, r)
         IN  /\ Len(notes) < MaxNotes
             /\ Commit(CreateNotes(notes, newId, edited, now), TRUE,
                       newId, FALSE, "create")
    ELSE /\ FindIndex(notes, selectedNoteId) # 0
         /\ Commit(UpdateNotes(notes, selectedNoteId, edited, now), TRUE,
                   selectedNoteId, isCreatingNew, "update")

\* NoteEditor.handleSave: submit of the form, or Ctrl+Enter.
handleSave(r) ==
    /\ status = "running"
    /\ EditorOpen
    /\ IF IsBlank(title, content)
       THEN /\ last' = "saveRejected"
            /\ UNCHANGED <<status, saved, storage, notes, search,
                           selectedNoteId, isCreatingNew, title, content, now>>
       ELSE handleSaveNote(Edited(title, content), r)

\* The Cancel button, or Escape.
handleCancelEdit ==
    /\ status = "running"
    /\ EditorOpen
    /\ Commit(notes, FALSE, Null, FALSE, "other")

\* The clock advances between events.
Tick ==
    /\ status = "running"
    /\ now < MaxClock
    /\ now' = now + 1
    /\ last' = "other"
    /\ UNCHANGED <<status, saved, storage, notes, search, selectedNoteId,
                   isCreatingNew, title, content>>

Next ==
    \/ handleSearchChange(SearchStrings)
    \/ handleCreateNoteClick
    \/ \E i \in 1..MaxNotes : handleSelectNote(i)
    \/ \E i \in 1..MaxNotes : \E confirmed \in BOOLEAN : handleDeleteNote(i, confirmed)
    \/ \E s \in Strings : setTitle(s)
    \/ \E s \in Strings : setContent(s)
    \/ \E r \in RandomSuffixes : handleSave(r)
    \/ handleCancelEdit
    \/ Tick

Spec == Init /\ [][Next]_vars

----------------------------------------------------------------------------
(* The filter on its own: any stored collection, any query *)

FilterTitles == {Trim(s) : s \in StringsOver(FilterChars, MaxLen)}

FilterContents == {<<>>, <<"A">>}

FilterFields ==
    {p \in FilterTitles \X FilterContents : p[1] # <<>> \/ p[2] # <<>>}

\* Collections of notes created at clock values 1, 2, ... (newest first).
FilterCollections ==
    UNION {[1..n -> FilterFields] : n \in 0..MaxFilterNotes}

FilterNotesOf(c) ==
    [i \in 1..Len(c) |->
        NewNote(generateId(Len(c) - i + 1, <<"k">>),
                [title |-> c[i][1], content |-> c[i][2]], Len(c) - i + 1)]

FilterInit ==
    /\ \E c \in FilterCollections : notes = FilterNotesOf(c)
    /\ saved = Item(Stringify(notes))
    /\ storage = saved
    /\ status = "running"
    /\ search = <<>>
    /\ selectedNoteId = Null
    /\ isCreatingNew = FALSE
    /\ title = <<>>
    /\ content = <<>>
    /\ now = MaxFilterNotes + 1
    /\ last = "start"

FilterNext == handleSearchChange(QueryStrings)

SpecFilter == FilterInit /\ [][FilterNext]_vars

----------------------------------------------------------------------------
(* Properties *)

AllWhitespace(s) == \A i \in 1..Len(s) : s[i] \in Whitespace

HasBlankNote(ns) ==
    \E i \in 1..Len(ns) : AllWhitespace(ns[i].title) /\ AllWhitespace(ns[i].content)

Ids(ns) == {ns[i].id : i \in 1..Len(ns)}

RemoveAt(ns, i) == SubSeq(ns, 1, i - 1) \o SubSeq(ns, i + 1, Len(ns))

editorState == <<selectedNoteId, isCreatingNew, title, content>>

\* C1: no note whose title and content are both blank after trimming is in
\* the collection or in the persisted snapshot; a save is accepted only
\* when the staged fields are not both blank, and a rejected save leaves the
\* collection, the selection/editor state and the snapshot unchanged.
C1_NoBlankNote ==
    /\ [](status = "running" =>
            /\ ~HasBlankNote(notes)
            /\ LoadNotes(storage).ok
            /\ ~HasBlankNote(LoadNotes(storage).val))
    /\ [][/\ last' \in {"create", "update"} =>
                ~(AllWhitespace(title) /\ AllWhitespace(content))
          /\ last' = "saveRejected" =>
                /\ AllWhitespace(title) /\ AllWhitespace(content)
                /\ UNCHANGED <<notes, editorState, storage>>]_vars

\* A blank save was attempted on a non-empty collection and rejected.
C1_Witness ==
    /\ last = "saveRejected"
    /\ title # <<>>
    /\ notes # <<>>

\* C2: a successful save in CreatingNew prepends a note with the trimmed
\* fields, an id no note of the previous collection has, a created
\* timestamp and no updated field, and selects it.
C2_CreatePrependsFreshNote ==
    [][last' = "create" =>
        /\ notes' # <<>>
        /\ Tail(notes') = notes
        /\ LET n == Head(notes')
           IN  /\ n.title = Trim(title)
               /\ n.content = Trim(content)
               /\ n.id \notin Ids(notes)
               /\ "created" \in DOMAIN n
               /\ "updated" \notin DOMAIN n
               /\ selectedNoteId' = n.id
        /\ ~isCreatingNew']_vars

\* C3: a successful save in EditingExisting(id) changes the title, content
\* and updated of one note, the one with that id, and nothing else; no step
\* changes the id or created of a note that stays in the collection.
C3_UpdateInPlace ==
    [][/\ last' = "update" =>
            /\ Len(notes') = Len(notes)
            /\ selectedNoteId' = selectedNoteId
            /\ \E i \in 1..Len(notes) :
                /\ notes[i].id = selectedNoteId
                /\ notes'[i].id = notes[i].id
                /\ notes'[i].created = notes[i].created
                /\ notes'[i].title = Trim(title)
                /\ notes'[i].content = Trim(content)
                /\ "updated" \in DOMAIN notes'[i]
                /\ \A j \in 1..Len(notes) : j # i => notes'[j] = notes[j]
       /\ \A j \in 1..Len(notes') :
            \/ last' = "create" /\ j = 1
            \/ \E i \in 1..Len(notes) :
                /\ notes'[j].id = notes[i].id
                /\ notes'[j].created = notes[i].created]_vars

\* C4: a confirmed delete of the selected note removes exactly that note,
\* clears the selection, closes the editor, and leaves the note in no
\* filter result.
C4_DeleteSelected ==
    [][last' = "deleteSelected" =>
        /\ \E i \in 1..Len(notes) :
            /\ notes[i].id = selectedNoteId
            /\ notes' = RemoveAt(notes, i)
        /\ selectedNoteId' = Null
        /\ ~isCreatingNew'
        /\ \A q \in QueryStrings :
            selectedNoteId \notin Ids(FilterNotes(notes', q))]_vars

\* C5: the ids of the notes in the collection are pairwise distinct.
C5_IdsDistinct ==
    \A i, j \in 1..Len(notes) : i # j => notes[i].id # notes[j].id

\* C6: when the slot was absent or unparseable at startup, the App runs,
\* and starts with the empty collection and the editor closed.
C6_StartupFallback ==
    (~saved.present \/ ~JSONParse(saved.text).ok) =>
        /\ status = "running"
        /\ last = "start" =>
            /\ notes = <<>>
            /\ selectedNoteId = Null
            /\ ~isCreatingNew

\* C7: the persisted snapshot is the serialization of the current
\* collection, and reading it back the way startup does gives the
\* collection.
C7_SnapshotRoundTrip ==
    status = "running" =>
        /\ storage.present
        /\ storage.text = Stringify(notes)
        /\ LoadNotes(storage) = [ok |-> TRUE, val |-> notes]

\* After an update, with an edited and a never-edited note in the collection.
C7_Witness ==
    /\ last = "update"
    /\ \E i, j \in 1..Len(notes) :
        /\ "updated" \in DOMAIN notes[i]
        /\ "updated" \notin DOMAIN notes[j]

\* C8: creating-new is never set while an id is selected, and a selected id
\* is the id of a note in the collection.
C8_SelectionState ==
    status = "running" =>
        /\ ~(isCreatingNew /\ selectedNoteId # Null)
        /\ selectedNoteId # Null => selectedNoteId \in Ids(notes)

\* A selection that survived the delete of another note.
C8_Witness ==
    /\ last = "deleteOther"
    /\ selectedNoteId # Null

\* C9: the visible list holds exactly the notes whose lowercased
\* title + " " + content contains the lowercased query, in collection
\* order; for the empty query it is the collection.
C9_FilterIsMatchingSubsequence ==
    LET hay(n)  == ToLowerCase(n.title \o <<" ">> \o n.content)
        nd      == ToLowerCase(search)
        hit(n)  == \E k \in 0..(Len(hay(n)) - Len(nd)) :
                       \A j \in 1..Len(nd) : hay(n)[k + j] = nd[j]
        idx     == {i \in 1..Len(notes) : hit(notes[i])}
        rank(i) == Cardinality({j \in idx : j < i})
    IN  /\ Len(filteredNotes) = Cardinality(idx)
        /\ \A i \in idx : filteredNotes[rank(i) + 1] = notes[i]
        /\ search = <<>> => filteredNotes = notes

\* A query with an uppercase letter that keeps the second of two notes.
C9_Witness ==
    /\ Len(notes) = 2
    /\ search # ToLowerCase(search)
    /\ filteredNotes = <<notes[2]>>

\* C10 as claimed: a confirmed delete of a note that is not selected leaves
\* the selection/editor state as it was, and a declined delete changes
\* nothing.
C10_DeleteOtherKeepsEditor ==
    [][/\ last' = "deleteOther" => UNCHANGED editorState
       /\ last' = "deleteDeclined" => UNCHANGED <<notes, editorState, storage>>]_vars

\* C10 as amended: a confirmed delete of a note that is not selected leaves
\* the selected id as it was; it leaves the editor as it was unless the
\* editor is in CreatingNew, which it closes; a declined delete changes
\* nothing.
C10_DeleteOtherClosesNewEditor ==
    [][/\ last' = "deleteOther" =>
            /\ selectedNoteId' = selectedNoteId
            /\ IF isCreatingNew
               THEN ~isCreatingNew' /\ title' = <<>> /\ content' = <<>>
               ELSE UNCHANGED editorState
       /\ last' = "deleteDeclined" => UNCHANGED <<notes, editorState, storage>>]_vars

\* Staged edits of the selected note that survived the delete of another.
C10_Witness ==
    /\ last = "deleteOther"
    /\ selectedNoteId # Null
    /\ title # EditorSeed(notes, selectedNoteId, isCreatingNew).title

====
